---- MODULE Spec2Model ----
(***************************************************************************)
(* Model of reload_operations_log.py: a log file is parsed line by line    *)
(* into ordered records, the records are grouped by their ordered tuple of *)
(* field names, every group is written to its own JSON-lines shard file    *)
(* with a manifest, and the shards are loaded into a local DuckDB file and *)
(* into a MotherDuck database by drop-and-recreate.                        *)
(*                                                                         *)
(* Text is modelled as sequences of one-character strings, so that         *)
(* splitting, stripping and formatting are computed and not assumed.       *)
(***************************************************************************)
EXTENDS Integers, Sequences, FiniteSets, TLC

(***************************************************************************)
(* Bounds of the model.                                                    *)
(***************************************************************************)
\* longest tail (tokens after the five leading ones) of a line given to parse_line
MaxTail == 3
\* longest log file, in lines, read by one run of the pipeline
MaxLines == 2
\* longest log file, in lines, of a run that also syncs the destinations
MaxSyncLines == 2
\* number of times the pipeline is run against the same directory and stores
MaxRuns == 2

(***************************************************************************)
(* Text helpers: Python's str methods on sequences of characters.          *)
(***************************************************************************)
Whitespace == {" ", "\n"}

DigitChars == <<"0", "1", "2", "3", "4", "5", "6", "7", "8", "9">>

IsDigitChar(c) == \E i \in 1..Len(DigitChars) : DigitChars[i] = c

DigitVal(c) == (CHOOSE i \in 1..Len(DigitChars) : DigitChars[i] = c) - 1

\* ord(c) for the characters of the model's alphabet
Ord(c) ==
    CASE c = "\n" -> 10
      [] c = " " -> 32
      [] c = "\"" -> 34
      [] c = "(" -> 40
      [] c = ")" -> 41
      [] c = "." -> 46
      [] IsDigitChar(c) -> 48 + DigitVal(c)
      [] c = ":" -> 58
      [] c = "=" -> 61
      [] c = "I" -> 73
      [] c = "_" -> 95
      [] c = "a" -> 97
      [] c = "b" -> 98
      [] c = "c" -> 99
      [] c = "d" -> 100
      [] c = "e" -> 101
      [] c = "g" -> 103
      [] c = "i" -> 105
      [] c = "j" -> 106
      [] c = "k" -> 107
      [] c = "l" -> 108
      [] c = "m" -> 109
      [] c = "n" -> 110
      [] c = "o" -> 111
      [] c = "p" -> 112
      [] c = "r" -> 114
      [] c = "s" -> 115
      [] c = "t" -> 116
      [] c = "u" -> 117
      [] c = "v" -> 118
      [] c = "w" -> 119
      [] c = "x" -> 120
      [] c = "y" -> 121
      [] c = "z" -> 122

StartsWith(s, p) == Len(s) >= Len(p) /\ SubSeq(s, 1, Len(p)) = p

EndsWith(s, p) == Len(s) >= Len(p) /\ SubSeq(s, Len(s) - Len(p) + 1, Len(s)) = p

Drop(s, n) == SubSeq(s, n + 1, Len(s))

RECURSIVE LStrip(_)
LStrip(s) == IF s # <<>> /\ Head(s) \in Whitespace THEN LStrip(Tail(s)) ELSE s

RECURSIVE RStrip(_)
RStrip(s) ==
    IF s # <<>> /\ s[Len(s)] \in Whitespace THEN RStrip(SubSeq(s, 1, Len(s) - 1)) ELSE s

\* str.strip()
Strip(s) == RStrip(LStrip(s))

\* str.split(): the maximal runs of non-whitespace characters, in order
RECURSIVE SplitFrom(_, _, _)
SplitFrom(s, cur, acc) ==
    IF s = <<>>
    THEN IF cur = <<>> THEN acc ELSE Append(acc, cur)
    ELSE IF Head(s) \in Whitespace
         THEN SplitFrom(Tail(s), <<>>, IF cur = <<>> THEN acc ELSE Append(acc, cur))
         ELSE SplitFrom(Tail(s), Append(cur, Head(s)), acc)

Split(s) == SplitFrom(s, <<>>, <<>>)

\* position of the first occurrence of character c in s, 0 when there is none
IndexOf(s, c) ==
    IF \E i \in 1..Len(s) : s[i] = c
    THEN CHOOSE i \in 1..Len(s) : s[i] = c /\ \A j \in 1..(i - 1) : s[j] # c
    ELSE 0

CountOf(s, c) == Cardinality({i \in 1..Len(s) : s[i] = c})

\* str.replace(c, "", 1)
RemoveFirst(s, c) ==
    LET i == IndexOf(s, c)
    IN  IF i = 0 THEN s ELSE SubSeq(s, 1, i - 1) \o Drop(s, i)

\* str.isdigit()
IsDigits(s) == s # <<>> /\ \A i \in 1..Len(s) : IsDigitChar(s[i])

RECURSIVE DigitsToNat(_)
DigitsToNat(s) ==
    IF s = <<>> THEN 0 ELSE 10 * DigitsToNat(SubSeq(s, 1, Len(s) - 1)) + DigitVal(s[Len(s)])

RECURSIVE StripTrailingZeros(_)
StripTrailingZeros(s) ==
    IF s # <<>> /\ s[Len(s)] = "0" THEN StripTrailingZeros(SubSeq(s, 1, Len(s) - 1)) ELSE s

(***************************************************************************)
(* Values of record fields: a Python str, int or float.                    *)
(***************************************************************************)
StrValue(s) == [kind |-> "str", text |-> s, num |-> 0]

IntValue(s) == [kind |-> "int", text |-> <<>>, num |-> DigitsToNat(s)]

\* float("w.f"): the whole part and the fraction digits without trailing zeros
FloatValue(s) ==
    LET dot == IndexOf(s, ".")
    IN  [kind |-> "float",
         text |-> StripTrailingZeros(Drop(s, dot)),
         num  |-> DigitsToNat(SubSeq(s, 1, dot - 1))]

normalize_value(raw) ==
    LET stripped == Strip(raw)
        value == IF StartsWith(stripped, <<"\"">>) /\ EndsWith(stripped, <<"\"">>)
                 THEN SubSeq(stripped, 2, Len(stripped) - 1)
                 ELSE stripped
    IN  IF IsDigits(RemoveFirst(value, ".")) /\ CountOf(value, ".") <= 1
        THEN IF IndexOf(value, ".") = 0 THEN IntValue(value) ELSE FloatValue(value)
        ELSE StrValue(value)

(***************************************************************************)
(* Ordered dictionaries: a sequence of [k, v] entries with distinct keys,  *)
(* in insertion order.                                                     *)
(***************************************************************************)
DictHas(d, key) == \E i \in 1..Len(d) : d[i].k = key

DictIndex(d, key) == CHOOSE i \in 1..Len(d) : d[i].k = key

DictGet(d, key) == d[DictIndex(d, key)].v

\* mutant of DictSet: an existing key is deleted and inserted again, at the end
DictSet_moveToEnd(d, key, value) ==
    LET Other(e) == e.k # key
    IN  Append(SelectSeq(d, Other), [k |-> key, v |-> value])

\* d[key] = value: an existing key keeps its position
DictSet(d, key, value) ==
    IF DictHas(d, key)
    THEN [d EXCEPT ![DictIndex(d, key)] = [k |-> key, v |-> value]]
    ELSE Append(d, [k |-> key, v |-> value])

DictKeys(d) == [i \in 1..Len(d) |-> d[i].k]

(***************************************************************************)
(* Optional values: Python's None and a present value.                     *)
(***************************************************************************)
None == [some |-> FALSE, val |-> <<>>]

Some(x) == [some |-> TRUE, val |-> x]

(***************************************************************************)
(* Words of the program, as text.                                          *)
(***************************************************************************)
W_timestamp == <<"t", "i", "m", "e", "s", "t", "a", "m", "p">>

W_message_type == <<"m", "e", "s", "s", "a", "g", "e", "_", "t", "y", "p", "e">>

W_service == <<"s", "e", "r", "v", "i", "c", "e">>

W_action == <<"a", "c", "t", "i", "o", "n">>

W_issue == <<"i", "s", "s", "u", "e">>

W_severity == <<"s", "e", "v", "e", "r", "i", "t", "y">>

\* the literal prefix of the pattern \(severity:\s*([^)]+)\)
SeverityOpen == <<"(", "s", "e", "v", "e", "r", "i", "t", "y", ":">>

BASE_COLUMNS == <<W_timestamp, W_message_type, W_service, W_action>>

(***************************************************************************)
(* parse_line                                                              *)
(***************************************************************************)
\* truth value of current_key in "elif current_key": None and "" are false
KeyPending(current_key) == current_key.some /\ current_key.val # <<>>

\* one iteration of "for token in payload_tokens", on [payload, current_key]
ScanToken(st, token) ==
    LET eq == IndexOf(token, "=")
        key == SubSeq(token, 1, eq - 1)
    IN  IF eq # 0
        THEN [payload |-> DictSet(st.payload, key, Drop(token, eq)),
              current_key |-> Some(key)]
        ELSE IF KeyPending(st.current_key)
             THEN [st EXCEPT !.payload =
                       DictSet(st.payload, st.current_key.val,
                               DictGet(st.payload, st.current_key.val) \o <<" ">> \o token)]
             ELSE st

RECURSIVE ScanTail(_, _)
ScanTail(tokens, st) ==
    IF tokens = <<>> THEN st ELSE ScanTail(Tail(tokens), ScanToken(st, Head(tokens)))

\* "for key, raw_value in payload.items(): record[key] = normalize_value(raw_value)"
RECURSIVE MergePayload(_, _)
MergePayload(record, payload) ==
    IF payload = <<>>
    THEN record
    ELSE MergePayload(DictSet(record, Head(payload).k, normalize_value(Head(payload).v)),
                      Tail(payload))

\* the pattern matches at position i of s: "(severity:", then at least one
\* character other than ")" (leading whitespace may be part of it), then ")"
SeverityMatchAt(s, i) ==
    /\ StartsWith(Drop(s, i - 1), SeverityOpen)
    /\ IndexOf(Drop(s, i - 1 + Len(SeverityOpen)), ")") > 1

\* re.search: start of the leftmost match, 0 when there is none
SeveritySearch(s) ==
    IF \E i \in 1..Len(s) : SeverityMatchAt(s, i)
    THEN CHOOSE i \in 1..Len(s) :
             SeverityMatchAt(s, i) /\ \A j \in 1..(i - 1) : ~SeverityMatchAt(s, j)
    ELSE 0

\* last position of the match that starts at i
SeverityMatchEnd(s, i) ==
    i - 1 + Len(SeverityOpen) + IndexOf(Drop(s, i - 1 + Len(SeverityOpen)), ")")

\* mutant of SeverityGroup: the group is not stripped
SeverityGroup_unstripped(s, i) ==
    SubSeq(s, i + Len(SeverityOpen), SeverityMatchEnd(s, i) - 1)

\* severity_match.group(1).strip()
SeverityGroup(s, i) ==
    Strip(SubSeq(s, i + Len(SeverityOpen), SeverityMatchEnd(s, i) - 1))

\* re.sub(pattern, "", s): every non-overlapping match removed, left to right
RECURSIVE SeveritySub(_)
SeveritySub(s) ==
    LET i == SeveritySearch(s)
    IN  IF i = 0
        THEN s
        ELSE SubSeq(s, 1, i - 1) \o SeveritySub(Drop(s, SeverityMatchEnd(s, i)))

\* lines 121-129: the severity annotation of the issue field
ExtractSeverity(record) ==
    IF DictHas(record, W_issue) /\ DictGet(record, W_issue).kind = "str"
    THEN LET issue_value == DictGet(record, W_issue).text
             at == SeveritySearch(issue_value)
             subbed == Strip(SeveritySub(issue_value))
             issue_cleaned == IF EndsWith(subbed, <<".">>)
                              THEN RStrip(SubSeq(subbed, 1, Len(subbed) - 1))
                              ELSE subbed
         IN  IF at # 0
             THEN DictSet(DictSet(record, W_severity, StrValue(SeverityGroup(issue_value, at))),
                          W_issue, StrValue(Strip(issue_cleaned)))
             ELSE record
    ELSE record

\* mutant of TooShort: the limit is off by one
TooShort_seven(parts) == Len(parts) < 7

\* "if len(parts) < 6"
TooShort(parts) == Len(parts) < 6

\* lines 93-119: the record of the base fields and the scanned tail, before
\* the severity annotation is looked at
RecordOf(parts) ==
    LET timestamp == parts[1] \o <<" ">> \o parts[2]
        scanned == ScanTail(Drop(parts, 5), [payload |-> <<>>, current_key |-> None])
        record == <<[k |-> W_timestamp, v |-> StrValue(timestamp)],
                    [k |-> W_message_type, v |-> StrValue(parts[3])],
                    [k |-> W_service, v |-> StrValue(parts[4])],
                    [k |-> W_action, v |-> StrValue(parts[5])]>>
    IN  MergePayload(record, scanned.payload)

parse_line(line) ==
    LET parts == Split(Strip(line))
    IN  IF TooShort(parts)
        THEN None
        ELSE Some(ExtractSeverity(RecordOf(parts)))

(***************************************************************************)
(* Input lines.  A line is rendered from tokens, separators and a line     *)
(* end; parse_line splits it again.                                        *)
(***************************************************************************)
\* date, time, message type, service, action
Header == <<<<"d">>, <<"t">>, <<"I">>, <<"s">>, <<"a">>>>

TailTokens ==
    { <<"k", "=", "1">>,
      <<"k", "=", "v">>,
      <<"j", "=", "1", ".", "5", "0">>,
      <<"w">>,
      <<"=", "x">>,
      <<"j", "=">>,
      <<"a", "c", "t", "i", "o", "n", "=", "z">>,
      <<"i", "s", "s", "u", "e", "=", "b",
        "(", "s", "e", "v", "e", "r", "i", "t", "y", ":", "x", ")", ".">>,
      <<"s", "e", "v", "e", "r", "i", "t", "y", "=", "l", "o">>,
      <<"k", "=", "\"", "v", "\"">>,
      <<"k", "=", "v", "=", "1">> }

SeqsUpTo(S, n) == UNION {[1..m -> S] : m \in 0..n}

RECURSIVE Join(_, _)
Join(tokens, sep) ==
    IF tokens = <<>> THEN <<>>
    ELSE IF Len(tokens) = 1 THEN Head(tokens)
    ELSE Head(tokens) \o sep \o Join(Tail(tokens), sep)

Layouts ==
    { [lead |-> <<>>, sep |-> <<" ">>, trail |-> <<"\n">>],
      [lead |-> <<" ">>, sep |-> <<" ", " ">>, trail |-> <<>>] }

Render(tokens, layout) == layout.lead \o Join(tokens, layout.sep) \o layout.trail

PlainLine(tokens) == Join(tokens, <<" ">>) \o <<"\n">>

\* the token sequences of the lines that are too short: every prefix of the header
ShortTokens == {SubSeq(Header, 1, n) : n \in 0..Len(Header)}

\* tails whose issue value is written over several tokens, as in
\* issue=Disk nearly full (severity: critical).
AnnotatedTails ==
    LET issue_b == <<"i", "s", "s", "u", "e", "=", "b">>
        close == <<"x", ")", ".">>
    IN  { <<issue_b, SeverityOpen, close>>,
          <<issue_b \o SeverityOpen \o <<"x">>, <<")", ".">>>>,
          <<issue_b, SeverityOpen, close, <<"k", "=", "1">>>>,
          <<W_severity \o <<"=", "l", "o">>, issue_b, SeverityOpen, close>> }

\* the lines given to parse_line on its own: the short ones, the header
\* followed by every tail of at most MaxTail tokens, and the annotated tails
ParseLines ==
    { Render(tokens, layout) :
        tokens \in ShortTokens
                   \cup {Header \o tail : tail \in SeqsUpTo(TailTokens, MaxTail)}
                   \cup {Header \o tail : tail \in AnnotatedTails},
        layout \in Layouts }

\* the lines read after another line: the short ones, and the tails of one token
SecondLines ==
    { Render(tokens, layout) :
        tokens \in ShortTokens \cup {Header \o <<token>> : token \in TailTokens},
        layout \in Layouts }

\* the lines of the log files given to the whole pipeline
LogLines ==
    { PlainLine(Header \o <<<<"k", "=", "1">>>>),
      PlainLine(Header \o <<<<"k", "=", "v">>>>),
      PlainLine(Header \o <<<<"j", "=", "1", ".", "5", "0">>, <<"k", "=", "1">>>>),
      PlainLine(Header \o <<<<"k", "=", "1">>, <<"j", "=", "1", ".", "5", "0">>>>),
      PlainLine(Header) }

\* the lines of the log files of the runs that sync the destinations
SyncLines ==
    { PlainLine(Header \o <<<<"k", "=", "1">>>>),
      PlainLine(Header \o <<<<"j", "=", "1", ".", "5", "0">>, <<"k", "=", "1">>>>),
      PlainLine(SubSeq(Header, 1, 4)) }

(***************************************************************************)
(* JSON lines.  json.dump writes a record as one object: every field as a  *)
(* member whose value is a number token or a string; reading the line back *)
(* (json.loads, read_json_auto) turns the tokens into values again.        *)
(***************************************************************************)
RECURSIVE NatToDigits(_)
NatToDigits(n) ==
    IF n < 10 THEN <<DigitChars[n + 1]>>
    ELSE NatToDigits(n \div 10) \o <<DigitChars[(n % 10) + 1]>>

\* the JSON token of a value: repr of an int or a float, or the string
JsonToken(v) ==
    CASE v.kind = "int" -> [type |-> "number", text |-> NatToDigits(v.num)]
      [] v.kind = "float" ->
            [type |-> "number",
             text |-> NatToDigits(v.num) \o <<".">>
                      \o (IF v.text = <<>> THEN <<"0">> ELSE v.text)]
      [] OTHER -> [type |-> "string", text |-> v.text]

\* json.dump(record, sink): the members of the object, in field order
JsonDump(rec) ==
    [i \in 1..Len(rec) |->
        [name |-> rec[i].k, type |-> JsonToken(rec[i].v).type,
         text |-> JsonToken(rec[i].v).text]]

\* the value a JSON token is read back as
JsonValue(m) ==
    IF m.type = "string" THEN StrValue(m.text)
    ELSE IF IndexOf(m.text, ".") = 0 THEN IntValue(m.text) ELSE FloatValue(m.text)

\* one line of a shard file read back as a row
JsonLoad(jline) == [i \in 1..Len(jline) |-> [k |-> jline[i].name, v |-> JsonValue(jline[i])]]

\* read_json_auto(file, format='newline_delimited'): the rows of a shard file
ReadJson(content) == [i \in 1..Len(content) |-> JsonLoad(content[i])]

(***************************************************************************)
(* Names and paths.  A path is the sequence of its components.             *)
(***************************************************************************)
\* Path(__file__).parent
BASE_DIR == <<"repo">>

\* args.table_prefix or log_file.stem
table_prefix == "ops"

\* the values of --output-dir: inside the script's directory, outside it, and
\* the script's directory itself
OutputDirs == { <<"repo", "out">>, <<"data", "out">>, <<"repo">> }

RECURSIVE NatToStr(_)
NatToStr(n) ==
    IF n < 10 THEN DigitChars[n + 1] ELSE NatToStr(n \div 10) \o DigitChars[(n % 10) + 1]

\* f"{idx:02}"
Fmt02(n) == IF n < 10 THEN "0" \o NatToStr(n) ELSE NatToStr(n)

TableName(prefix, n) == prefix \o "_schema_" \o Fmt02(n)

ShardFile(prefix, n) == prefix \o "_schema_" \o Fmt02(n) \o ".jsonl"

\* mutant of ManifestFilename: the path is never made relative
ManifestFilename_absolute(path) == [abs |-> TRUE, parts |-> path]

\* str(filename.relative_to(BASE_DIR) if filename.is_relative_to(BASE_DIR) else filename)
ManifestFilename(path) ==
    IF StartsWith(path, BASE_DIR)
    THEN [abs |-> FALSE, parts |-> Drop(path, Len(BASE_DIR))]
    ELSE [abs |-> TRUE, parts |-> path]

\* BASE_DIR / entry["filename"]
EntryPath(filename) == IF filename.abs THEN filename.parts ELSE BASE_DIR \o filename.parts

(***************************************************************************)
(* write_jsonl: the order of the schema groups                             *)
(***************************************************************************)
\* a < b for two str, by code point
RECURSIVE StrLess(_, _)
StrLess(a, b) ==
    IF b = <<>> THEN FALSE
    ELSE IF a = <<>> THEN TRUE
    ELSE IF Head(a) # Head(b) THEN Ord(Head(a)) < Ord(Head(b))
    ELSE StrLess(Tail(a), Tail(b))

\* a < b for two tuples of str
RECURSIVE TupleLess(_, _)
TupleLess(a, b) ==
    IF b = <<>> THEN FALSE
    ELSE IF a = <<>> THEN TRUE
    ELSE IF Head(a) # Head(b) THEN StrLess(Head(a), Head(b))
    ELSE TupleLess(Tail(a), Tail(b))

\* mutant of SortKeyLess: key=lambda item: len(item[0])
SortKeyLess_lengthOnly(a, b) == Len(a.k) < Len(b.k)

\* key=lambda item: (len(item[0]), item[0])
SortKeyLess(a, b) ==
    \/ Len(a.k) < Len(b.k)
    \/ Len(a.k) = Len(b.k) /\ TupleLess(a.k, b.k)

\* item placed after every element that is not greater than it (sorted is stable)
InsertSorted(sorted, item) ==
    LET n == IF \E i \in 1..Len(sorted) : SortKeyLess(item, sorted[i])
             THEN (CHOOSE i \in 1..Len(sorted) :
                      SortKeyLess(item, sorted[i])
                      /\ \A j \in 1..(i - 1) : ~SortKeyLess(item, sorted[j])) - 1
             ELSE Len(sorted)
    IN  SubSeq(sorted, 1, n) \o <<item>> \o Drop(sorted, n)

RECURSIVE SortItems(_)
SortItems(items) ==
    IF items = <<>> THEN <<>>
    ELSE InsertSorted(SortItems(SubSeq(items, 1, Len(items) - 1)), items[Len(items)])

(***************************************************************************)
(* main: classification, and write_jsonl                                   *)
(***************************************************************************)
\* "not record" in main: None and an empty dict are false
Falsy(opt) == ~opt.some \/ opt.val = <<>>

\* sorted(names)
RECURSIVE SortNames(_)
SortNames(names) ==
    IF names = <<>> THEN <<>>
    ELSE LET rest == SortNames(SubSeq(names, 1, Len(names) - 1))
             x == names[Len(names)]
             Smaller(y) == ~StrLess(x, y)
             Greater(y) == StrLess(x, y)
         IN  SelectSeq(rest, Smaller) \o <<x>> \o SelectSeq(rest, Greater)

\* mutant of schema_key: tuple(sorted(record.keys()))
schema_key_sorted(rec) == SortNames(DictKeys(rec))

schema_key(rec) == DictKeys(rec)

\* mutant of AppendToGroup: records_by_schema[key] = [record]
AppendToGroup_replace(groups, rec) == DictSet(groups, schema_key(rec), <<rec>>)

\* records_by_schema.setdefault(key, []).append(record)
AppendToGroup(groups, rec) ==
    LET key == schema_key(rec)
    IN  DictSet(groups, key, (IF DictHas(groups, key) THEN DictGet(groups, key) ELSE <<>>)
                             \o <<rec>>)

\* mutant of ShardLines: json.dump after the loop, on the last record only
ShardLines_lastOnly(records) == <<JsonDump(records[Len(records)])>>

\* the lines json.dump writes for the records of one group
ShardLines(records) == [j \in 1..Len(records) |-> JsonDump(records[j])]

\* mutant of WriteFile: filename.open("a")
WriteFile_append(old, new) == old \o new

\* filename.open("w"): the content of the file after it has been written
WriteFile(old, new) == new

ShardPath(dir, prefix, n) == Append(dir, ShardFile(prefix, n))

\* the manifest write_jsonl builds and returns
BuildManifest(groups, dir, prefix) ==
    LET sorted_records == SortItems(groups)
    IN  [i \in 1..Len(sorted_records) |->
            [schema_id  |-> i,
             table_name |-> TableName(prefix, i),
             columns    |-> sorted_records[i].k,
             filename   |-> ManifestFilename(ShardPath(dir, prefix, i)),
             row_count  |-> Len(sorted_records[i].v)]]

\* the files of the disk after write_jsonl has written its shard files
WriteShards(fs, groups, dir, prefix) ==
    LET sorted_records == SortItems(groups)
        written == {ShardPath(dir, prefix, i) : i \in 1..Len(sorted_records)}
        NumberOf(p) == CHOOSE i \in 1..Len(sorted_records) : ShardPath(dir, prefix, i) = p
    IN  [p \in DOMAIN fs \cup written |->
            IF p \in written
            THEN WriteFile(IF p \in DOMAIN fs THEN fs[p] ELSE <<>>,
                           ShardLines(sorted_records[NumberOf(p)].v))
            ELSE fs[p]]

\* path.mkdir(parents=True, exist_ok=True)
ensure_output_dir(ds, path) == ds \cup {SubSeq(path, 1, n) : n \in 1..Len(path)}

(***************************************************************************)
(* State.                                                                  *)
(***************************************************************************)
VARIABLES
    run,                \* number of the current run of the script
    pc,                 \* position of the current run in main
    error,              \* the exception that ended the run, "" when none
    args,               \* the command line: output_dir, duckdb, skip_duckdb,
                        \* skip_motherduck, motherduck_db
    MOTHERDUCK_TOKEN,   \* the environment's token, "" when unset
    log_file_exists,    \* whether the file of --log-file exists
    lines,              \* the lines of the log file
    idx,                \* number of the next line the read loop takes
    record,             \* main's record: the last result of parse_line
    records_by_schema,  \* main's groups, an ordered dict: key -> records
    manifest,           \* the manifest write_jsonl returned
    dirs,               \* the directories that exist
    files,              \* the shard files that exist: path -> lines
    manifest_file,      \* the manifest file: None, or the manifest written
    duckdb_file_exists, \* whether the file of --duckdb exists
    tables,             \* per destination: table name -> rows
    driver,             \* the sync driver that is running, "" when none
    con,                \* its connection: "none", "open" or "closed"
    entry,              \* number of the manifest entry its loop is at
    trace,              \* the connection events and statements of this run
    stdout,             \* what this run has printed
    parsed,             \* history: the records parse_line has returned in this run
    prev,               \* history: the disk as the run before this one left it
    same_input          \* history: this run reads the log the run before it read

vars == <<run, pc, error, args, MOTHERDUCK_TOKEN, log_file_exists, lines, idx, record,
          records_by_schema, manifest, dirs, files, manifest_file, duckdb_file_exists,
          tables, driver, con, entry, trace, stdout, parsed, prev, same_input>>

\* what a run starts from, whatever the disk and the destinations hold
inputVars == <<args, MOTHERDUCK_TOKEN, log_file_exists, lines, duckdb_file_exists, prev,
               same_input>>

diskVars == <<dirs, files, manifest_file>>

syncVars == <<tables, driver, con, entry, trace>>

Destinations == {"duckdb", "motherduck"}

NoTables == [n \in {} |-> <<>>]

Say(text) == [text |-> text, table |-> "", rows |-> 0]

\* the state of a process that has just started
FreshRun ==
    /\ pc = "start"
    /\ error = ""
    /\ idx = 1
    /\ record = None
    /\ records_by_schema = <<>>
    /\ parsed = <<>>
    /\ manifest = <<>>
    /\ driver = ""
    /\ con = "none"
    /\ entry = 0
    /\ trace = <<>>
    /\ stdout = <<>>

\* nothing written yet; the local store, when its file exists, was initialised
\* by load_data_to_duckdb.py and holds the table named as the prefix
FreshDisk ==
    /\ dirs = {}
    /\ files = [p \in {} |-> <<>>]
    /\ manifest_file = None
    /\ prev = [files |-> [p \in {} |-> <<>>], manifest_file |-> None]
    /\ same_input = FALSE
    /\ tables = [d \in Destinations |->
                    IF d = "duckdb" /\ duckdb_file_exists
                    THEN [n \in {table_prefix} |-> <<>>]
                    ELSE NoTables]

ArgsSet ==
    [output_dir : OutputDirs, duckdb : {None, Some(<<"data", "ops.duckdb">>)},
     skip_duckdb : BOOLEAN, skip_motherduck : BOOLEAN, motherduck_db : {"", "antm_hack"}]

\* the whole pipeline, once, for every command line and environment
Init ==
    /\ run = 1
    /\ args \in ArgsSet
    /\ MOTHERDUCK_TOKEN \in {"", "token"}
    /\ log_file_exists \in BOOLEAN
    /\ lines \in (IF log_file_exists THEN SeqsUpTo(SyncLines, MaxSyncLines) ELSE {<<>>})
    /\ duckdb_file_exists \in (IF args.duckdb.some THEN BOOLEAN ELSE {FALSE})
    /\ FreshRun
    /\ FreshDisk

\* the shard writer alone: neither destination is configured
InitShard ==
    /\ run = 1
    /\ args \in {a \in ArgsSet : /\ a.output_dir = <<"repo", "out">>
                                /\ ~a.duckdb.some
                                /\ ~a.skip_duckdb
                                /\ ~a.skip_motherduck
                                /\ a.motherduck_db # ""}
    /\ MOTHERDUCK_TOKEN = ""
    /\ log_file_exists = TRUE
    /\ lines \in SeqsUpTo(LogLines, MaxLines)
    /\ duckdb_file_exists = FALSE
    /\ FreshRun
    /\ FreshDisk

\* both destinations configured and synced
InitRerun ==
    /\ run = 1
    /\ args \in {a \in ArgsSet : /\ a.output_dir = <<"repo", "out">>
                                /\ a.duckdb.some
                                /\ ~a.skip_duckdb
                                /\ ~a.skip_motherduck
                                /\ a.motherduck_db # ""}
    /\ MOTHERDUCK_TOKEN = "token"
    /\ log_file_exists = TRUE
    /\ lines \in SeqsUpTo(SyncLines, MaxSyncLines)
    /\ duckdb_file_exists = TRUE
    /\ FreshRun
    /\ FreshDisk

\* parse_line on its own: a log file of one line, or of a good line and a second one
InitParse ==
    /\ run = 1
    /\ args \in {a \in ArgsSet : /\ a.output_dir = <<"repo", "out">>
                                /\ ~a.duckdb.some
                                /\ ~a.skip_duckdb
                                /\ ~a.skip_motherduck
                                /\ a.motherduck_db # ""}
    /\ MOTHERDUCK_TOKEN = ""
    /\ log_file_exists = TRUE
    /\ lines \in {<<line>> : line \in ParseLines}
                  \cup {<<PlainLine(Header \o <<<<"k", "=", "v">>>>), line>> :
                           line \in SecondLines}
    /\ duckdb_file_exists = FALSE
    /\ FreshRun
    /\ FreshDisk

(***************************************************************************)
(* main, up to the manifest                                                *)
(***************************************************************************)
\* log_file.open("r") on a file that exists
OpenLog ==
    /\ pc = "start"
    /\ log_file_exists
    /\ pc' = "read"
    /\ UNCHANGED <<run, error, idx, record, records_by_schema, parsed, manifest, stdout>>
    /\ UNCHANGED <<inputVars, diskVars, syncVars>>

\* mutant of LogMissing: the output directory is made before the log is opened
LogMissing_afterMkdir ==
    /\ pc = "start"
    /\ ~log_file_exists
    /\ dirs' = ensure_output_dir(dirs, args.output_dir)
    /\ pc' = "failed"
    /\ error' = "FileNotFoundError: log file"
    /\ UNCHANGED <<run, idx, record, records_by_schema, parsed, manifest, stdout>>
    /\ UNCHANGED <<inputVars, files, manifest_file, syncVars>>

\* log_file.open("r") raises FileNotFoundError, which ends the run
LogMissing ==
    /\ pc = "start"
    /\ ~log_file_exists
    /\ pc' = "failed"
    /\ error' = "FileNotFoundError: log file"
    /\ UNCHANGED <<run, idx, record, records_by_schema, parsed, manifest, stdout>>
    /\ UNCHANGED <<inputVars, diskVars, syncVars>>

\* one iteration of "for line in logfile"
ReadLine ==
    /\ pc = "read"
    /\ idx <= Len(lines)
    /\ idx' = idx + 1
    /\ IF Strip(lines[idx]) = <<>>
       THEN UNCHANGED <<record, records_by_schema, parsed>>
       ELSE /\ record' = parse_line(lines[idx])
            /\ parsed' = IF record'.some THEN Append(parsed, record'.val) ELSE parsed
            /\ records_by_schema' =
                   IF Falsy(record') THEN records_by_schema
                   ELSE AppendToGroup(records_by_schema, record'.val)
    /\ UNCHANGED <<run, pc, error, manifest, stdout>>
    /\ UNCHANGED <<inputVars, diskVars, syncVars>>

\* the end of the read loop, and write_jsonl
write_jsonl ==
    /\ pc = "read"
    /\ idx > Len(lines)
    /\ dirs' = ensure_output_dir(dirs, args.output_dir)
    /\ files' = WriteShards(files, records_by_schema, args.output_dir, table_prefix)
    /\ manifest' = BuildManifest(records_by_schema, args.output_dir, table_prefix)
    /\ manifest_file' = Some(manifest')
    /\ stdout' = stdout
                 \o <<[text |-> "Discovered unique schema(s).", table |-> "",
                       rows |-> Len(records_by_schema)]>>
                 \o [i \in 1..Len(manifest') |->
                        [text |-> "Wrote rows to", table |-> manifest'[i].table_name,
                         rows |-> manifest'[i].row_count]]
                 \o <<Say("Schema manifest saved to")>>
    /\ pc' = "duckdb"
    /\ UNCHANGED <<run, error, idx, record, records_by_schema, parsed>>
    /\ UNCHANGED <<inputVars, syncVars>>

(***************************************************************************)
(* The two sync drivers.  Both run the same statements on their own        *)
(* connection; driver names the one that is running.                       *)
(***************************************************************************)
Event(ev, stmt, table, ok) ==
    [ev |-> ev, dest |-> driver, stmt |-> stmt, table |-> table, ok |-> ok]

\* duckdb.connect(...), and the first statement is next
Connect(d) ==
    /\ driver' = d
    /\ con' = "open"
    /\ entry' = 0
    /\ trace' = Append(trace, [ev |-> "connect", dest |-> d, stmt |-> "", table |-> "",
                               ok |-> TRUE])
    /\ pc' = "drop_legacy"

\* mutant of rebuild_duckdb_tables: the existence check is missing, and
\* duckdb.connect opens (and creates) the database file
rebuild_duckdb_tables_noExistsCheck ==
    /\ pc = "duckdb"
    /\ \/ /\ args.skip_duckdb
          /\ stdout' = Append(stdout, Say("Skipping DuckDB load (flag set)."))
          /\ pc' = "motherduck"
          /\ UNCHANGED <<error, syncVars>>
       \/ /\ ~args.skip_duckdb
          /\ ~args.duckdb.some
          /\ stdout' = Append(stdout, Say("Skipping DuckDB load (no database path provided)."))
          /\ pc' = "motherduck"
          /\ UNCHANGED <<error, syncVars>>
       \/ /\ ~args.skip_duckdb
          /\ args.duckdb.some
          /\ Connect("duckdb")
          /\ UNCHANGED <<error, stdout, tables>>
    /\ UNCHANGED <<run, idx, record, records_by_schema, parsed, manifest>>
    /\ UNCHANGED <<inputVars, diskVars>>

rebuild_duckdb_tables ==
    /\ pc = "duckdb"
    /\ \/ /\ args.skip_duckdb
          /\ stdout' = Append(stdout, Say("Skipping DuckDB load (flag set)."))
          /\ pc' = "motherduck"
          /\ UNCHANGED <<error, syncVars>>
       \/ /\ ~args.skip_duckdb
          /\ ~args.duckdb.some
          /\ stdout' = Append(stdout, Say("Skipping DuckDB load (no database path provided)."))
          /\ pc' = "motherduck"
          /\ UNCHANGED <<error, syncVars>>
       \/ /\ ~args.skip_duckdb
          /\ args.duckdb.some
          /\ ~duckdb_file_exists
          /\ pc' = "failed"
          /\ error' = "FileNotFoundError: DuckDB database not found"
          /\ UNCHANGED <<stdout, syncVars>>
       \/ /\ ~args.skip_duckdb
          /\ args.duckdb.some
          /\ duckdb_file_exists
          /\ Connect("duckdb")
          /\ UNCHANGED <<error, stdout, tables>>
    /\ UNCHANGED <<run, idx, record, records_by_schema, parsed, manifest>>
    /\ UNCHANGED <<inputVars, diskVars>>

\* mutant of load_into_motherduck: the database name is not checked
load_into_motherduck_noNameCheck ==
    /\ pc = "motherduck"
    /\ \/ /\ args.skip_motherduck
          /\ stdout' = Append(stdout, Say("Skipping MotherDuck load (flag set)."))
          /\ pc' = "done"
          /\ UNCHANGED syncVars
       \/ /\ ~args.skip_motherduck
          /\ MOTHERDUCK_TOKEN = ""
          /\ stdout' = Append(stdout,
                              Say("Skipping MotherDuck load (MOTHERDUCK_TOKEN not set)."))
          /\ pc' = "done"
          /\ UNCHANGED syncVars
       \/ /\ ~args.skip_motherduck
          /\ MOTHERDUCK_TOKEN # ""
          /\ stdout' = Append(stdout, Say("Connecting to MotherDuck database:"))
          /\ Connect("motherduck")
          /\ UNCHANGED tables
    /\ UNCHANGED <<run, error, idx, record, records_by_schema, parsed, manifest>>
    /\ UNCHANGED <<inputVars, diskVars>>

load_into_motherduck ==
    /\ pc = "motherduck"
    /\ \/ /\ args.skip_motherduck
          /\ stdout' = Append(stdout, Say("Skipping MotherDuck load (flag set)."))
          /\ pc' = "done"
          /\ UNCHANGED syncVars
       \/ /\ ~args.skip_motherduck
          /\ MOTHERDUCK_TOKEN = ""
          /\ stdout' = Append(stdout,
                              Say("Skipping MotherDuck load (MOTHERDUCK_TOKEN not set)."))
          /\ pc' = "done"
          /\ UNCHANGED syncVars
       \/ /\ ~args.skip_motherduck
          /\ MOTHERDUCK_TOKEN # ""
          /\ args.motherduck_db = ""
          /\ stdout' = Append(stdout,
                              Say("Skipping MotherDuck load (database name not provided)."))
          /\ pc' = "done"
          /\ UNCHANGED syncVars
       \/ /\ ~args.skip_motherduck
          /\ MOTHERDUCK_TOKEN # ""
          /\ args.motherduck_db # ""
          /\ stdout' = Append(stdout, Say("Connecting to MotherDuck database:"))
          /\ Connect("motherduck")
          /\ UNCHANGED tables
    /\ UNCHANGED <<run, error, idx, record, records_by_schema, parsed, manifest>>
    /\ UNCHANGED <<inputVars, diskVars>>

\* the statement a running driver is about to execute, and its table
InDriver == driver # "" /\ con = "open" /\ pc \in {"drop_legacy", "drop", "create", "count"}

AtStatement == InDriver /\ (pc = "drop_legacy" \/ entry <= Len(manifest))

CurrentTable == IF pc = "drop_legacy" THEN table_prefix ELSE manifest[entry].table_name

\* the tables of a destination after DROP TABLE IF EXISTS name
DropTable(tbls, name) == [n \in DOMAIN tbls \ {name} |-> tbls[n]]

\* the tables of a destination after CREATE TABLE name AS SELECT * FROM read_json_auto(...)
CreateTable(tbls, name, content) ==
    [n \in DOMAIN tbls \cup {name} |-> IF n = name THEN ReadJson(content) ELSE tbls[n]]

\* con.execute(f"DROP TABLE IF EXISTS {table_prefix}")
DropLegacy ==
    /\ InDriver
    /\ pc = "drop_legacy"
    /\ tables' = [tables EXCEPT ![driver] = DropTable(@, table_prefix)]
    /\ trace' = Append(trace, Event("execute", "drop", table_prefix, TRUE))
    /\ entry' = 1
    /\ pc' = "drop"
    /\ UNCHANGED <<run, error, idx, record, records_by_schema, parsed, manifest, stdout,
                   driver, con>>
    /\ UNCHANGED <<inputVars, diskVars>>

\* mutant of DropEntry: the loop creates the table without dropping it first
DropEntry_omitted ==
    /\ AtStatement
    /\ pc = "drop"
    /\ pc' = "create"
    /\ UNCHANGED <<run, error, idx, record, records_by_schema, parsed, manifest, stdout>>
    /\ UNCHANGED <<inputVars, diskVars, syncVars>>

\* con.execute(f"DROP TABLE IF EXISTS {table_name}")
DropEntry ==
    /\ AtStatement
    /\ pc = "drop"
    /\ tables' = [tables EXCEPT ![driver] = DropTable(@, manifest[entry].table_name)]
    /\ trace' = Append(trace, Event("execute", "drop", manifest[entry].table_name, TRUE))
    /\ pc' = "create"
    /\ UNCHANGED <<run, error, idx, record, records_by_schema, parsed, manifest, stdout,
                   driver, con, entry>>
    /\ UNCHANGED <<inputVars, diskVars>>

\* con.execute("CREATE TABLE ... AS SELECT * FROM read_json_auto(...)"), which
\* succeeds only on a shard file that exists and a table name that is free
CreateEntry ==
    /\ AtStatement
    /\ pc = "create"
    /\ EntryPath(manifest[entry].filename) \in DOMAIN files
    /\ manifest[entry].table_name \notin DOMAIN tables[driver]
    /\ tables' = [tables EXCEPT ![driver] =
                      CreateTable(@, manifest[entry].table_name,
                                  files[EntryPath(manifest[entry].filename)])]
    /\ trace' = Append(trace, Event("execute", "create", manifest[entry].table_name, TRUE))
    /\ pc' = "count"
    /\ UNCHANGED <<run, error, idx, record, records_by_schema, parsed, manifest, stdout,
                   driver, con, entry>>
    /\ UNCHANGED <<inputVars, diskVars>>

\* con.execute(f"SELECT COUNT(*) FROM {table_name}").fetchone()[0], and the report
CountEntry ==
    /\ AtStatement
    /\ pc = "count"
    /\ manifest[entry].table_name \in DOMAIN tables[driver]
    /\ trace' = Append(trace, Event("execute", "count", manifest[entry].table_name, TRUE))
    /\ stdout' = Append(stdout,
                        [text  |-> IF driver = "duckdb" THEN "row(s) loaded."
                                   ELSE "[MotherDuck] row(s) loaded.",
                         table |-> manifest[entry].table_name,
                         rows  |-> Len(tables[driver][manifest[entry].table_name])])
    /\ entry' = entry + 1
    /\ pc' = "drop"
    /\ UNCHANGED <<run, error, idx, record, records_by_schema, parsed, manifest, tables,
                   driver, con>>
    /\ UNCHANGED <<inputVars, diskVars>>

\* what the driver's "finally" prints after con.close()
FinallyReport(d) == IF d = "motherduck" THEN <<Say("MotherDuck load complete.")>> ELSE <<>>

\* mutant of StatementRaises: there is no finally block, and the exception
\* leaves the connection open
StatementRaises_noFinally ==
    /\ AtStatement
    /\ trace' = Append(trace, Event("execute", IF pc = "drop_legacy" THEN "drop" ELSE pc,
                                    CurrentTable, FALSE))
    /\ error' = "duckdb.Error"
    /\ pc' = "failed"
    /\ UNCHANGED <<run, idx, record, records_by_schema, parsed, manifest, stdout, tables,
                   driver, con, entry>>
    /\ UNCHANGED <<inputVars, diskVars>>

\* mutant of StatementRaises: the exception is caught inside the loop and
\* the driver goes on with the next entry
StatementRaises_continues ==
    /\ AtStatement
    /\ trace' = Append(trace, Event("execute", IF pc = "drop_legacy" THEN "drop" ELSE pc,
                                    CurrentTable, FALSE))
    /\ entry' = entry + 1
    /\ pc' = "drop"
    /\ UNCHANGED <<run, error, idx, record, records_by_schema, parsed, manifest, stdout,
                   tables, driver, con>>
    /\ UNCHANGED <<inputVars, diskVars>>

\* a statement raises (the destination refuses it, the connection is lost, ...):
\* the finally block closes the connection and the exception ends the run
StatementRaises ==
    /\ AtStatement
    /\ trace' = trace \o <<Event("execute", IF pc = "drop_legacy" THEN "drop" ELSE pc,
                                 CurrentTable, FALSE),
                           Event("close", "", "", TRUE)>>
    /\ con' = "closed"
    /\ stdout' = stdout \o FinallyReport(driver)
    /\ error' = "duckdb.Error"
    /\ pc' = "failed"
    /\ UNCHANGED <<run, idx, record, records_by_schema, parsed, manifest, tables, driver,
                   entry>>
    /\ UNCHANGED <<inputVars, diskVars>>

\* the loop over the manifest is exhausted: the finally block, and the return
SyncReturns ==
    /\ InDriver
    /\ pc = "drop"
    /\ entry > Len(manifest)
    /\ trace' = Append(trace, Event("close", "", "", TRUE))
    /\ con' = "closed"
    /\ stdout' = stdout \o FinallyReport(driver)
    /\ pc' = IF driver = "duckdb" THEN "motherduck" ELSE "done"
    /\ UNCHANGED <<run, error, idx, record, records_by_schema, parsed, manifest, tables,
                   driver, entry>>
    /\ UNCHANGED <<inputVars, diskVars>>

Sync ==
    \/ DropLegacy
    \/ DropEntry
    \/ CreateEntry
    \/ CountEntry
    \/ StatementRaises
    \/ SyncReturns

\* the script is started again on the disk and the destinations as the run before
\* left them, with the same command line and a log file of at most n lines of pool
Rerun(pool, n) ==
    /\ pc \in {"done", "failed"}
    /\ run < MaxRuns
    /\ run' = run + 1
    /\ lines' \in SeqsUpTo(pool, n)
    /\ same_input' = (lines' = lines)
    /\ prev' = [files |-> files, manifest_file |-> manifest_file]
    /\ pc' = "start"
    /\ error' = ""
    /\ idx' = 1
    /\ record' = None
    /\ records_by_schema' = <<>>
    /\ parsed' = <<>>
    /\ manifest' = <<>>
    /\ driver' = ""
    /\ con' = "none"
    /\ entry' = 0
    /\ trace' = <<>>
    /\ stdout' = <<>>
    /\ UNCHANGED <<args, MOTHERDUCK_TOKEN, log_file_exists, duckdb_file_exists, tables>>
    /\ UNCHANGED diskVars

RerunShard == Rerun(LogLines, MaxLines)

RerunSync == Rerun(SyncLines, MaxSyncLines)

Next ==
    \/ OpenLog
    \/ LogMissing
    \/ ReadLine
    \/ write_jsonl
    \/ rebuild_duckdb_tables
    \/ load_into_motherduck
    \/ Sync

Spec == Init /\ [][Next]_vars

\* parse_line and the classification of its record
NextParse ==
    \/ OpenLog
    \/ ReadLine
    \/ write_jsonl

SpecParse == InitParse /\ [][NextParse]_vars

\* runs of the shard writer, one after the other on the same output directory
NextShard ==
    \/ OpenLog
    \/ ReadLine
    \/ write_jsonl
    \/ rebuild_duckdb_tables
    \/ load_into_motherduck
    \/ RerunShard

SpecShard == InitShard /\ [][NextShard]_vars

\* runs that sync both destinations, one after the other on the same stores
NextRerun ==
    \/ OpenLog
    \/ ReadLine
    \/ write_jsonl
    \/ rebuild_duckdb_tables
    \/ load_into_motherduck
    \/ Sync
    \/ RerunSync

SpecRerun == InitRerun /\ [][NextRerun]_vars

(***************************************************************************)
(* Vocabulary of the properties.                                           *)
(***************************************************************************)
\* number of whitespace-separated tokens of a line: the positions where a token starts
TokenCount(line) ==
    Cardinality({i \in 1..Len(line) :
                    line[i] \notin Whitespace /\ (i = 1 \/ line[i - 1] \in Whitespace)})

\* the field names of a record, in order
FieldNames(rec) == [i \in 1..Len(rec) |-> rec[i].k]

\* the run has got past write_jsonl
Written == pc \notin {"start", "read"} /\ manifest_file.some

\* the local sync stage raised
LocalSyncFailed ==
    /\ pc = "failed"
    /\ \/ error = "FileNotFoundError: DuckDB database not found"
       \/ error = "duckdb.Error" /\ driver = "duckdb"

\* the drop or the create of entry k of the manifest raised in the running driver
LoadFailedAt(k) ==
    /\ pc = "failed"
    /\ error = "duckdb.Error"
    /\ entry = k
    /\ k >= 1
    /\ \E i \in 1..Len(trace) :
           ~trace[i].ok /\ trace[i].stmt \in {"drop", "create"}

\* a connection to destination d was opened in this run
Attempted(d) == \E i \in 1..Len(trace) : trace[i].ev = "connect" /\ trace[i].dest = d

\* the driver of destination d ran to its end in this run
Synced(d) ==
    \E i \in 1..Len(trace) :
        /\ trace[i].ev = "close"
        /\ trace[i].dest = d
        /\ \A j \in 1..Len(trace) : trace[j].dest = d => trace[j].ok

\* the tables of destination d other than the legacy table named as the prefix
SchemaTables(d) == DOMAIN tables[d] \ {table_prefix}

\* the shard file of entry i of the manifest, as rows
ShardRows(i) == ReadJson(files[EntryPath(manifest[i].filename)])

(***************************************************************************)
(* C1.  The two sync stages are isolated: when the local stage fails (the  *)
(* store file is missing, or a statement raises), load_into_motherduck is  *)
(* still attempted in the same run whenever it is not skipped and its      *)
(* token and database name are present.                                    *)
(* Refuted: main calls the two drivers one after the other without a       *)
(* try/except, so the exception of the local stage ends the run.           *)
(***************************************************************************)
C1_RemoteAttemptedAfterLocalFailure ==
    (/\ LocalSyncFailed
     /\ ~args.skip_motherduck
     /\ MOTHERDUCK_TOKEN # ""
     /\ args.motherduck_db # "")
    => Attempted("motherduck")

(***************************************************************************)
(* C2.  When a driver's load fails at manifest entry k, the destination    *)
(* holds, on exit, the table of every entry before k with exactly the rows *)
(* of its shard file and no table named as entry k or a later one,         *)
(* whatever the destination held before.                                   *)
(* Refuted: a table is dropped only right before it is created, so the     *)
(* tables of entries after k that an earlier run left are still there, and *)
(* so is the table of entry k when its drop is what fails.  (The formula   *)
(* reads "the load fails" as the drop or the create raising; a count that  *)
(* raises leaves the table of entry k in place as well.)                   *)
(***************************************************************************)
C2_PartialStateAfterFailure ==
    \A k \in 1..Len(manifest) :
        LoadFailedAt(k) =>
            \A i \in 1..Len(manifest) :
                IF i < k
                THEN /\ manifest[i].table_name \in DOMAIN tables[driver]
                     /\ tables[driver][manifest[i].table_name] = ShardRows(i)
                ELSE manifest[i].table_name \notin DOMAIN tables[driver]

(***************************************************************************)
(* C3.  A run that completes without error fully replaces the output of    *)
(* the runs before it: the shard files of the output directory, and the    *)
(* schema tables of every destination it synced, are exactly those of the  *)
(* new manifest.                                                           *)
(* Refuted: write_jsonl removes no file and the drivers drop only the      *)
(* tables the new manifest names, so the shard file and the table of an    *)
(* earlier run that found more schemas survive.                            *)
(***************************************************************************)
C3_RunReplacesPriorOutput ==
    pc = "done" =>
        /\ DOMAIN files = {EntryPath(manifest[i].filename) : i \in 1..Len(manifest)}
        /\ \A d \in Destinations :
               Synced(d) =>
                   SchemaTables(d) = {manifest[i].table_name : i \in 1..Len(manifest)}

(***************************************************************************)
(* The records main has parsed, as the properties see them.                *)
(***************************************************************************)
\* the lines the read loop has taken so far
LinesRead == SubSeq(lines, 1, idx - 1)

\* number of times x occurs in sequence s
Occurrences(s, x) == Cardinality({i \in 1..Len(s) : s[i] = x})

\* the sequences of a sequence of sequences, one after the other
RECURSIVE Concat(_)
Concat(ss) == IF ss = <<>> THEN <<>> ELSE Head(ss) \o Concat(Tail(ss))

\* s with only its elements whose field names are names, in order
WithNames(s, names) ==
    LET Keep(r) == FieldNames(r) = names
    IN  SelectSeq(s, Keep)

\* a < b in Python's order of str: the first position where they differ decides,
\* and a proper prefix comes first
StrBefore(a, b) ==
    \/ Len(a) < Len(b) /\ SubSeq(b, 1, Len(a)) = a
    \/ \E p \in 1..Len(a) :
           /\ p <= Len(b)
           /\ SubSeq(a, 1, p - 1) = SubSeq(b, 1, p - 1)
           /\ Ord(a[p]) < Ord(b[p])

\* a < b in Python's order of tuples of str
TupleBefore(a, b) ==
    \/ Len(a) < Len(b) /\ SubSeq(b, 1, Len(a)) = a
    \/ \E p \in 1..Len(a) :
           /\ p <= Len(b)
           /\ SubSeq(a, 1, p - 1) = SubSeq(b, 1, p - 1)
           /\ StrBefore(a[p], b[p])

\* "NN": a schema id below 100, zero-padded to two digits
TwoDigits(n) == DigitChars[(n \div 10) + 1] \o DigitChars[(n % 10) + 1]

(***************************************************************************)
(* C4.  Classification is a partition of the parsed records: every record  *)
(* parse_line returned is in exactly one group of records_by_schema, the   *)
(* group keyed by its own field names, no record is in twice, and the      *)
(* group sizes add up to the number of parsed lines.                       *)
(***************************************************************************)
C4_GroupsPartitionParsed ==
    LET groups == records_by_schema
        all == Concat([g \in 1..Len(groups) |-> groups[g].v])
    IN  /\ \A g, h \in 1..Len(groups) : groups[g].k = groups[h].k => g = h
        /\ \A g \in 1..Len(groups) :
               \A j \in 1..Len(groups[g].v) : FieldNames(groups[g].v[j]) = groups[g].k
        /\ Len(all) = Len(parsed)
        /\ \A i \in 1..Len(parsed) :
               Occurrences(all, parsed[i]) = Occurrences(parsed, parsed[i])

\* the loop has ended with two different records in one group
C4_Witness ==
    /\ pc = "duckdb"
    /\ \E g \in 1..Len(records_by_schema) :
           /\ Len(records_by_schema[g].v) = 2
           /\ records_by_schema[g].v[1] # records_by_schema[g].v[2]

(***************************************************************************)
(* C5.  Round trip of write_jsonl: every shard file holds exactly the      *)
(* records of its schema group, one per line, in their order of arrival in *)
(* the log, and the records of all shard files, in manifest order, are the *)
(* parsed records, each exactly once.                                      *)
(***************************************************************************)
C5_ShardsRoundTrip ==
    Written =>
        LET shards == [i \in 1..Len(manifest) |-> ShardRows(i)]
        IN  /\ \A i \in 1..Len(manifest) :
                   shards[i] = WithNames(parsed, manifest[i].columns)
            /\ Len(Concat(shards)) = Len(parsed)
            /\ \A i \in 1..Len(parsed) :
                   Occurrences(Concat(shards), parsed[i]) = Occurrences(parsed, parsed[i])

\* a shard of two different records has been written, one with a float in it
C5_Witness ==
    /\ Written
    /\ \E i \in 1..Len(manifest) :
           /\ Len(ShardRows(i)) = 2
           /\ ShardRows(i)[1] # ShardRows(i)[2]
    /\ \E i \in 1..Len(parsed) : \E j \in 1..Len(parsed[i]) : parsed[i][j].v.kind # "str"

(***************************************************************************)
(* C6.  The manifest has one entry per distinct schema key, ascending by   *)
(* (number of fields, tuple of field names); the entry at position i has   *)
(* schema_id i and the table name <prefix>_schema_<i as two digits>, so    *)
(* the ids are 1..N and the table names differ, whatever the order in      *)
(* which the schemas were first seen.                                      *)
(***************************************************************************)
C6_ManifestSortedAndNumbered ==
    Written =>
        /\ {manifest[i].columns : i \in 1..Len(manifest)}
               = {FieldNames(parsed[i]) : i \in 1..Len(parsed)}
        /\ Len(manifest) = Cardinality({FieldNames(parsed[i]) : i \in 1..Len(parsed)})
        /\ \A i \in 1..Len(manifest) :
               /\ manifest[i].schema_id = i
               /\ manifest[i].table_name = table_prefix \o "_schema_" \o TwoDigits(i)
        /\ \A i, j \in 1..Len(manifest) :
               i < j =>
                   /\ manifest[i].table_name # manifest[j].table_name
                   /\ \/ Len(manifest[i].columns) < Len(manifest[j].columns)
                      \/ /\ Len(manifest[i].columns) = Len(manifest[j].columns)
                         /\ TupleBefore(manifest[i].columns, manifest[j].columns)

\* two schemas with as many fields each, first seen in the other order
C6_Witness ==
    /\ Written
    /\ Len(manifest) = 2
    /\ Len(manifest[1].columns) = Len(manifest[2].columns)
    /\ records_by_schema[1].k = manifest[2].columns

(***************************************************************************)
(* C7.  Every manifest entry describes its shard file: its columns are, in *)
(* order, the field names of every record of the file, and its row_count   *)
(* is the number of lines of the file.  Two records with the same field    *)
(* names in a different order are in different shards.                     *)
(***************************************************************************)
C7_EntryDescribesShard ==
    Written =>
        /\ \A i \in 1..Len(manifest) :
               LET content == files[EntryPath(manifest[i].filename)]
               IN  /\ manifest[i].row_count = Len(content)
                   /\ \A j \in 1..Len(content) :
                          [m \in 1..Len(content[j]) |-> content[j][m].name]
                              = manifest[i].columns
        /\ \A a, b \in 1..Len(parsed) :
               FieldNames(parsed[a]) # FieldNames(parsed[b]) =>
                   ~\E i \in 1..Len(manifest) :
                        /\ Occurrences(ShardRows(i), parsed[a]) > 0
                        /\ Occurrences(ShardRows(i), parsed[b]) > 0

\* two records with the same field names in a different order have been written
C7_Witness ==
    /\ Written
    /\ \E a, b \in 1..Len(parsed) :
           /\ FieldNames(parsed[a]) # FieldNames(parsed[b])
           /\ {parsed[a][m].k : m \in 1..Len(parsed[a])}
                  = {parsed[b][m].k : m \in 1..Len(parsed[b])}

(***************************************************************************)
(* C8.  Running the pipeline again on an unchanged log, with the same      *)
(* output directory and prefix, leaves shard files and a manifest          *)
(* identical to those of the run before.                                   *)
(***************************************************************************)
C8_RerunIdentical ==
    (run > 1 /\ same_input /\ Written) =>
        /\ manifest_file = prev.manifest_file
        /\ files = prev.files
        /\ manifest_file.val = manifest

\* a second run on the same log has written two shards again
C8_Witness ==
    /\ run > 1
    /\ same_input
    /\ pc = "done"
    /\ Len(manifest) = 2
    /\ records_by_schema[1].k = manifest[2].columns

(***************************************************************************)
(* C9.  parse_line returns None for every line of fewer than 6 tokens and  *)
(* a record for every line of 6 or more.  A discarded or blank line raises *)
(* no error and is in no schema group: the groups and the manifest are     *)
(* those of the other lines.                                               *)
(***************************************************************************)
C9_ShortLinesDiscarded ==
    LET IsGood(line) == TokenCount(line) >= 6
        good == SelectSeq(LinesRead, IsGood)
        all == Concat([g \in 1..Len(records_by_schema) |-> records_by_schema[g].v])
        RECURSIVE Rows(_)
        Rows(n) == IF n = 0 THEN 0 ELSE Rows(n - 1) + manifest[n].row_count
    IN  /\ pc # "failed"
        /\ error = ""
        /\ (pc = "read" /\ idx > 1) =>
               LET line == lines[idx - 1]
                   result == parse_line(line)
               IN  /\ result.some <=> IsGood(line)
                   /\ TokenCount(line) > 0 => record = result
                   /\ IsGood(line) =>
                          \E g \in 1..Len(records_by_schema) :
                              /\ records_by_schema[g].k = FieldNames(result.val)
                              /\ records_by_schema[g].v[Len(records_by_schema[g].v)]
                                     = result.val
        /\ Len(all) = Len(good)
        /\ \A i \in 1..Len(good) : Occurrences(all, parse_line(good[i]).val) > 0
        /\ Written => Rows(Len(manifest)) = Len(good)

\* a line of one to five tokens after a good line, and the good line's shard written
C9_Witness ==
    /\ Written
    /\ Len(lines) = 2
    /\ TokenCount(lines[1]) >= 6
    /\ TokenCount(lines[2]) \in 1..5
    /\ record = None
    /\ Len(manifest) = 1
    /\ manifest[1].row_count = 1

(***************************************************************************)
(* C10.  For every line of at least 6 tokens, the first four field names   *)
(* of the record parse_line returns are timestamp, message_type, service,  *)
(* action, in that order, whatever key=value tokens the tail has.          *)
(***************************************************************************)
C10_BaseColumnsFirst ==
    (pc = "read" /\ idx > 1 /\ TokenCount(lines[idx - 1]) >= 6) =>
        /\ record.some
        /\ Len(record.val) >= 4
        /\ SubSeq(FieldNames(record.val), 1, 4) = BASE_COLUMNS

\* the tail has set the field action, and it is still the fourth field
C10_Witness ==
    /\ pc = "read"
    /\ idx > 1
    /\ TokenCount(lines[idx - 1]) >= 6
    /\ record.some
    /\ record.val[4] = [k |-> W_action, v |-> StrValue(<<"z">>)]

(***************************************************************************)
(* Vocabulary of the properties of parse_line.                             *)
(***************************************************************************)
\* a line of at least 6 tokens has just been given to parse_line
JustParsed == pc = "read" /\ idx > 1 /\ TokenCount(lines[idx - 1]) >= 6

\* the tokens of the line just read
PartsRead == Split(Strip(lines[idx - 1]))

\* the record of the line just read as it stands before the severity step
BeforeSeverity == RecordOf(PartsRead)

\* v[i..j] is an annotation "(severity:" text ")", the text without ")" and not empty
IsAnnotation(v, i, j) ==
    /\ i + Len(SeverityOpen) < j
    /\ j <= Len(v)
    /\ SubSeq(v, i, i + Len(SeverityOpen) - 1) = SeverityOpen
    /\ v[j] = ")"
    /\ \A m \in (i + Len(SeverityOpen))..(j - 1) : v[m] # ")"

HasAnnotation(v) == \E i, j \in 1..Len(v) : IsAnnotation(v, i, j)

\* the bounds <<i, j>> of the leftmost annotation of v
FirstAnnotation(v) ==
    CHOOSE b \in (1..Len(v)) \X (1..Len(v)) :
        /\ IsAnnotation(v, b[1], b[2])
        /\ \A i, j \in 1..Len(v) : IsAnnotation(v, i, j) => b[1] <= i

\* X of the leftmost annotation (severity: X), trimmed
AnnotationText(v) ==
    LET b == FirstAnnotation(v)
    IN  Strip(SubSeq(v, b[1] + Len(SeverityOpen), b[2] - 1))

\* v with its annotations cut out
RECURSIVE WithoutAnnotations(_)
WithoutAnnotations(v) ==
    IF HasAnnotation(v)
    THEN LET b == FirstAnnotation(v)
         IN  SubSeq(v, 1, b[1] - 1) \o WithoutAnnotations(SubSeq(v, b[2] + 1, Len(v)))
    ELSE v

\* v with its annotations and one trailing period removed, trimmed
IssueCleaned(v) ==
    LET a == Strip(WithoutAnnotations(v))
    IN  IF a # <<>> /\ a[Len(a)] = "." THEN Strip(SubSeq(a, 1, Len(a) - 1)) ELSE a

\* the issue field of rec is a string with an annotation
Annotated(rec) ==
    /\ DictHas(rec, W_issue)
    /\ DictGet(rec, W_issue).kind = "str"
    /\ HasAnnotation(DictGet(rec, W_issue).text)

\* the severity and issue values the annotation of the issue field asks for
SeverityValuesSet(before, after) ==
    LET v == DictGet(before, W_issue).text
    IN  /\ DictHas(after, W_severity)
        /\ DictGet(after, W_severity) = StrValue(AnnotationText(v))
        /\ DictGet(after, W_issue) = StrValue(IssueCleaned(v))

(***************************************************************************)
(* C11 as stated.  When the issue field is a string with an annotation     *)
(* (severity: X), the record has a field severity of value X trimmed,      *)
(* placed immediately after issue, and issue has lost the annotation and a *)
(* trailing period and is trimmed, wherever issue stands in the tail and   *)
(* with or without a severity=... token.                                   *)
(***************************************************************************)
C11_SeverityFollowsIssue ==
    (JustParsed /\ Annotated(BeforeSeverity)) =>
        /\ SeverityValuesSet(BeforeSeverity, record.val)
        /\ DictIndex(record.val, W_severity) = DictIndex(record.val, W_issue) + 1

(***************************************************************************)
(* C11 amended.  When the issue field is a string with an annotation       *)
(* (severity: X), the record has a field severity of value X trimmed and   *)
(* issue has lost the annotation and a trailing period and is trimmed.     *)
(* The field severity is the last field of the record when the tail has no *)
(* severity=... token, and stays where that token put it otherwise; every  *)
(* other field keeps its place and its value.                              *)
(***************************************************************************)
C11_SeverityAppended ==
    (JustParsed /\ Annotated(BeforeSeverity)) =>
        LET before == BeforeSeverity
            after == record.val
        IN  /\ SeverityValuesSet(before, after)
            /\ FieldNames(after) =
                   IF DictHas(before, W_severity)
                   THEN FieldNames(before)
                   ELSE Append(FieldNames(before), W_severity)
            /\ \A i \in 1..Len(before) :
                   before[i].k \notin {W_issue, W_severity} => after[i] = before[i]

\* issue came before k in the tail, and severity was added after both; the
\* annotation was written with a space after the colon
C11_Witness ==
    /\ JustParsed
    /\ Annotated(BeforeSeverity)
    /\ Len(record.val) = 7
    /\ record.val[5] = [k |-> W_issue, v |-> StrValue(<<"b">>)]
    /\ record.val[6] = [k |-> <<"k">>, v |-> IntValue(<<"1">>)]
    /\ record.val[7] = [k |-> W_severity, v |-> StrValue(<<"x">>)]
    /\ CountOf(lines[idx - 1], ":") = 1
    /\ \E i \in 1..(Len(lines[idx - 1]) - 1) :
           lines[idx - 1][i] = ":" /\ lines[idx - 1][i + 1] = " "

(***************************************************************************)
(* Vocabulary of the properties of the sync drivers.                       *)
(***************************************************************************)
\* main has called rebuild_duckdb_tables, which has got past its checks
LocalCalled == Written /\ pc # "duckdb"

\* main has called load_into_motherduck, which has got past its checks
RemoteCalled == Written /\ (pc = "done" \/ driver = "motherduck")

\* the events of the trace that belong to destination d
EventsOf(d) == SelectSeq(trace, LAMBDA e : e.dest = d)

Printed(text) == \E i \in 1..Len(stdout) : stdout[i].text = text

\* the shard files and the manifest are on disk as write_jsonl wrote them
OutputInPlace ==
    /\ manifest_file = Some(manifest)
    /\ args.output_dir \in dirs
    /\ \A i \in 1..Len(manifest) :
           /\ EntryPath(manifest[i].filename) \in DOMAIN files
           /\ Len(files[EntryPath(manifest[i].filename)]) = manifest[i].row_count

DatabaseNotFound == error = "FileNotFoundError: DuckDB database not found"

(***************************************************************************)
(* C12.  rebuild_duckdb_tables raises "database not found" exactly when    *)
(* the skip flag is not set, a database path is given and no file is at    *)
(* that path.  With the skip flag set, or without a path, it returns       *)
(* without a connection or a statement, also when the file is missing.     *)
(* The error comes before any connection is opened and after the shard     *)
(* files and the manifest have been written.                               *)
(***************************************************************************)
C12_LocalStoreMissingIsFatal ==
    LET must_fail == ~args.skip_duckdb /\ args.duckdb.some /\ ~duckdb_file_exists
        skipped == args.skip_duckdb \/ ~args.duckdb.some
    IN  /\ DatabaseNotFound =>
               /\ must_fail
               /\ pc = "failed"
               /\ trace = <<>>
               /\ con = "none"
               /\ OutputInPlace
        /\ (LocalCalled /\ must_fail) => DatabaseNotFound
        /\ (LocalCalled /\ skipped) =>
               /\ EventsOf("duckdb") = <<>>
               /\ tables["duckdb"] = IF duckdb_file_exists
                                     THEN [n \in {table_prefix} |-> <<>>]
                                     ELSE NoTables
               /\ Printed(IF args.skip_duckdb
                          THEN "Skipping DuckDB load (flag set)."
                          ELSE "Skipping DuckDB load (no database path provided).")
               /\ pc = "failed" => driver = "motherduck"

\* the run has failed on the missing database file with a shard written
C12_Witness ==
    /\ DatabaseNotFound
    /\ pc = "failed"
    /\ Len(manifest) >= 1
    /\ manifest_file.some

\* the skip flag is set, the file of --duckdb is missing, and the run is over
C12_WitnessSkip ==
    /\ pc = "done"
    /\ args.skip_duckdb
    /\ args.duckdb.some
    /\ ~duckdb_file_exists

(***************************************************************************)
(* C13.  load_into_motherduck returns without a connection or a statement  *)
(* whenever the skip flag is set, the token is absent or the database name *)
(* is absent.  The run does not fail there: it ends normally, and the      *)
(* shard files and the manifest stay as write_jsonl wrote them.            *)
(***************************************************************************)
C13_RemoteSkipIsNotFatal ==
    LET skipped == args.skip_motherduck \/ MOTHERDUCK_TOKEN = "" \/ args.motherduck_db = ""
        message == IF args.skip_motherduck
                   THEN "Skipping MotherDuck load (flag set)."
                   ELSE IF MOTHERDUCK_TOKEN = ""
                        THEN "Skipping MotherDuck load (MOTHERDUCK_TOKEN not set)."
                        ELSE "Skipping MotherDuck load (database name not provided)."
    IN  skipped =>
            /\ EventsOf("motherduck") = <<>>
            /\ tables["motherduck"] = NoTables
            /\ driver # "motherduck"
            /\ pc = "done" =>
                   /\ error = ""
                   /\ con # "open"
                   /\ Printed(message)
                   /\ ~Printed("MotherDuck load complete.")
                   /\ OutputInPlace
            \* a run that fails has failed before the remote driver was called
            /\ pc = "failed" =>
                   \/ ~Written
                   \/ DatabaseNotFound
                   \/ (driver = "duckdb" /\ trace[Len(trace) - 1].ok = FALSE)

\* the token is set and the database name is not; the local store was synced
\* and the run has ended normally
C13_Witness ==
    /\ pc = "done"
    /\ ~args.skip_motherduck
    /\ MOTHERDUCK_TOKEN # ""
    /\ args.motherduck_db = ""
    /\ Len(manifest) >= 1
    /\ EventsOf("duckdb") # <<>>

(***************************************************************************)
(* C14.  When the input log file is absent the run ends with an error      *)
(* before it has produced anything: the output directory is not made, no   *)
(* shard file and no manifest is written, nothing is printed and neither   *)
(* sync driver is called.                                                  *)
(***************************************************************************)
C14_MissingLogAbortsBeforeOutput ==
    ~log_file_exists =>
        /\ pc \in {"start", "failed"}
        /\ pc = "failed" => error = "FileNotFoundError: log file"
        /\ dirs = {}
        /\ DOMAIN files = {}
        /\ manifest_file = None
        /\ manifest = <<>>
        /\ stdout = <<>>
        /\ trace = <<>>
        /\ driver = ""
        /\ con = "none"
        /\ \A d \in Destinations : SchemaTables(d) = {}

\* the run has failed on the missing log, with both destinations configured
C14_Witness ==
    /\ ~log_file_exists
    /\ pc = "failed"
    /\ args.duckdb.some
    /\ duckdb_file_exists
    /\ ~args.skip_duckdb
    /\ ~args.skip_motherduck
    /\ MOTHERDUCK_TOKEN # ""
    /\ args.motherduck_db # ""

(***************************************************************************)
(* Vocabulary of the properties of the manifest's filename field.          *)
(***************************************************************************)
\* "<prefix>_schema_<NN>.jsonl" for schema id n
ShardName(n) == table_prefix \o "_schema_" \o TwoDigits(n) \o ".jsonl"

\* path d is the directory base or lies below it
Inside(d, base) == Len(d) >= Len(base) /\ \A n \in 1..Len(base) : d[n] = base[n]

(***************************************************************************)
(* C15 as stated.  Each manifest entry's filename field is                 *)
(* "<table_name>.jsonl", that is "<prefix>_schema_<NN>.jsonl" with NN the  *)
(* two-digit schema id, for every output directory.                        *)
(***************************************************************************)
C15_FilenameIsTableNameJsonl ==
    Written =>
        \A i \in 1..Len(manifest) :
            /\ ~manifest[i].filename.abs
            /\ manifest[i].filename.parts = <<manifest[i].table_name \o ".jsonl">>
            /\ manifest[i].filename.parts = <<ShardName(i)>>

(***************************************************************************)
(* C15 amended.  Each manifest entry's filename field is the path of the   *)
(* entry's shard file, which is the output directory followed by           *)
(* "<table_name>.jsonl" = "<prefix>_schema_<NN>.jsonl": the path relative  *)
(* to the script's directory when the output directory is inside it, the   *)
(* absolute path otherwise.  It is "<table_name>.jsonl" alone exactly when *)
(* the output directory is the script's directory.                         *)
(***************************************************************************)
C15_FilenameIsShardPath ==
    Written =>
        \A i \in 1..Len(manifest) :
            LET f == manifest[i].filename
                shard == Append(args.output_dir, ShardName(i))
            IN  /\ ShardName(i) = manifest[i].table_name \o ".jsonl"
                /\ f.abs = ~Inside(args.output_dir, BASE_DIR)
                /\ (IF f.abs THEN f.parts ELSE BASE_DIR \o f.parts) = shard
                /\ shard \in DOMAIN files
                /\ (~f.abs /\ f.parts = <<ShardName(i)>>) <=> args.output_dir = BASE_DIR

\* two shards written to a directory outside the script's directory
C15_Witness ==
    /\ Written
    /\ ~Inside(args.output_dir, BASE_DIR)
    /\ Len(manifest) = 2
    /\ manifest[2].filename.abs
    /\ manifest[2].filename.parts[Len(manifest[2].filename.parts)] = "ops_schema_02.jsonl"

(***************************************************************************)
(* Vocabulary of the properties of the statements.                         *)
(***************************************************************************)
\* the statements issued on destination d in this run, in order
Statements(d) == SelectSeq(EventsOf(d), LAMBDA e : e.ev = "execute")

\* the n-th statement of a driver: the drop of the table named as the prefix,
\* then drop, create and count of each manifest entry in manifest order
Planned(n) ==
    IF n = 1
    THEN [stmt |-> "drop", table |-> table_prefix]
    ELSE [stmt |-> <<"drop", "create", "count">>[((n - 2) % 3) + 1],
          table |-> manifest[((n - 2) \div 3) + 1].table_name]

\* the driver of destination d has returned
Returned(d) ==
    /\ EventsOf(d) # <<>>
    /\ EventsOf(d)[Len(EventsOf(d))].ev = "close"
    /\ \A n \in 1..Len(Statements(d)) : Statements(d)[n].ok

(***************************************************************************)
(* C16.  Within one driver invocation the statements are issued in this    *)
(* order: the drop of the table named table_prefix, then for each manifest *)
(* entry in manifest order the drop of its table, the create of its table  *)
(* from its shard file and its row count.  No statement of entry i+1 is    *)
(* issued before the create and the count of entry i have completed, and   *)
(* every create comes immediately after a drop of the same name.           *)
(***************************************************************************)
C16_StatementOrder ==
    \A d \in Destinations :
        LET st == Statements(d)
        IN  /\ Len(st) <= 1 + 3 * Len(manifest)
            /\ \A n \in 1..Len(st) :
                   /\ st[n].stmt = Planned(n).stmt
                   /\ st[n].table = Planned(n).table
                   /\ n < Len(st) => st[n].ok
                   /\ st[n].stmt = "create" =>
                          /\ n > 1
                          /\ st[n - 1].stmt = "drop"
                          /\ st[n - 1].table = st[n].table
                          /\ st[n - 1].ok
                   /\ (st[n].stmt = "create" /\ st[n].ok) =>
                          \E i \in 1..Len(manifest) :
                              /\ manifest[i].table_name = st[n].table
                              /\ n = 3 * i
                              /\ st[n].table \in DOMAIN tables[d]
                              /\ tables[d][st[n].table] = ShardRows(i)
            /\ EventsOf(d) # <<>> => EventsOf(d)[1].ev = "connect"
            /\ Returned(d) => Len(st) = 1 + 3 * Len(manifest)

\* both drivers have run to their end over a manifest of two entries
C16_Witness ==
    /\ pc = "done"
    /\ Len(manifest) = 2
    /\ Returned("duckdb")
    /\ Returned("motherduck")
    /\ Len(Statements("duckdb")) = 7
    /\ Len(Statements("motherduck")) = 7

(***************************************************************************)
(* C17.  When a statement of manifest entry k fails inside a sync driver,  *)
(* the driver issues no statement of a later entry and the error ends the  *)
(* run; the tables the driver has created for the entries before k are in  *)
(* the destination, and the shard files and the manifest are on disk as    *)
(* write_jsonl wrote them.                                                 *)
(***************************************************************************)
C17_FailureStopsDriver ==
    \A d \in Destinations : \A k \in 1..Len(manifest) :
        LET st == Statements(d)
            failed_at_k == /\ st # <<>>
                           /\ ~st[Len(st)].ok
                           /\ st[Len(st)].table = manifest[k].table_name
        IN  failed_at_k =>
                \* nothing is issued after the failure, and the error ends the run
                /\ pc = "failed"
                /\ error = "duckdb.Error"
                /\ driver = d
                /\ entry = k
                /\ trace[Len(trace)].ev = "close"
                /\ trace[Len(trace) - 1] = st[Len(st)]
                /\ d = "duckdb" => EventsOf("motherduck") = <<>>
                /\ \A n \in 1..Len(st) : \A i \in (k + 1)..Len(manifest) :
                       st[n].table # manifest[i].table_name
                \* the tables of the entries before k
                /\ \A i \in 1..(k - 1) :
                       /\ manifest[i].table_name \in DOMAIN tables[d]
                       /\ tables[d][manifest[i].table_name] = ShardRows(i)
                       /\ \E n \in 1..Len(st) :
                              /\ st[n].stmt = "create"
                              /\ st[n].table = manifest[i].table_name
                              /\ st[n].ok
                \* the disk
                /\ manifest_file = Some(manifest)
                /\ DOMAIN files = {EntryPath(manifest[i].filename) : i \in 1..Len(manifest)}
                /\ \A i \in 1..Len(manifest) :
                       ShardRows(i) = WithNames(parsed, manifest[i].columns)

\* the remote driver has failed at the second entry after it loaded the first
C17_Witness ==
    /\ pc = "failed"
    /\ driver = "motherduck"
    /\ Len(manifest) = 2
    /\ entry = 2
    /\ ~trace[Len(trace) - 1].ok
    /\ trace[Len(trace) - 1].table = manifest[2].table_name
    /\ manifest[1].table_name \in DOMAIN tables["motherduck"]
    /\ Len(tables["motherduck"][manifest[1].table_name]) >= 1

(***************************************************************************)
(* Vocabulary of the properties of the tail scan.                          *)
(***************************************************************************)
\* the tail tokens of the line just read
TailRead == SubSeq(PartsRead, 6, Len(PartsRead))

HasEquals(token) == \E i \in 1..Len(token) : token[i] = "="

\* the first position of "=" in a token that has one
FirstEquals(token) ==
    CHOOSE i \in 1..Len(token) : token[i] = "=" /\ \A j \in 1..(i - 1) : token[j] # "="

\* the scan as the rule states it: a key is pending from the first token with
\* "=" on, whatever its name
RECURSIVE ScanByRule(_, _, _)
ScanByRule(tokens, fields, pending) ==
    IF tokens = <<>> THEN fields
    ELSE LET token == Head(tokens)
             key == SubSeq(token, 1, FirstEquals(token) - 1)
             value == SubSeq(token, FirstEquals(token) + 1, Len(token))
         IN  IF HasEquals(token)
             THEN ScanByRule(Tail(tokens), DictSet(fields, key, value), Some(key))
             ELSE IF pending.some
                  THEN ScanByRule(Tail(tokens),
                                  DictSet(fields, pending.val,
                                          DictGet(fields, pending.val) \o <<" ">> \o token),
                                  pending)
                  ELSE ScanByRule(Tail(tokens), fields, pending)

\* the payload the scan of parse_line ends with
PayloadRead == ScanTail(TailRead, [payload |-> <<>>, current_key |-> None]).payload

(***************************************************************************)
(* C18.  The tail scan of parse_line, left to right: a token with "=" sets *)
(* the field named by the text before its first "=" to the text after it   *)
(* and makes that field the pending key; a token without "=" is appended,  *)
(* after one space, to the value of the pending key whenever a token with  *)
(* "=" has come before it, whatever the key's name (the empty name of a    *)
(* token that starts with "=" too); it is dropped only when no key is      *)
(* pending.                                                                *)
(* Refuted: "elif current_key" takes the empty key for no key.             *)
(***************************************************************************)
C18_TailScanFollowsRule ==
    JustParsed =>
        /\ PayloadRead = ScanByRule(TailRead, <<>>, None)
        /\ \A i \in 1..Len(PayloadRead) :
               /\ DictHas(BeforeSeverity, PayloadRead[i].k)
               /\ DictGet(BeforeSeverity, PayloadRead[i].k)
                      = normalize_value(PayloadRead[i].v)

(***************************************************************************)
(* C19.  For every line of at least 6 tokens the value of timestamp is     *)
(* token 0 and token 1 joined by one space, and the values of              *)
(* message_type, service and action are tokens 2, 3 and 4, whatever the    *)
(* tail (a tail token timestamp=..., message_type=..., service=... or      *)
(* action=... included).                                                   *)
(* Refuted: the fields of the tail are assigned over the base fields.      *)
(***************************************************************************)
C19_BaseValuesFromTokens ==
    JustParsed =>
        /\ record.some
        /\ DictGet(record.val, W_timestamp)
               = StrValue(PartsRead[1] \o <<" ">> \o PartsRead[2])
        /\ DictGet(record.val, W_message_type) = StrValue(PartsRead[3])
        /\ DictGet(record.val, W_service) = StrValue(PartsRead[4])
        /\ DictGet(record.val, W_action) = StrValue(PartsRead[5])

(***************************************************************************)
(* Vocabulary of the properties of the connections.                        *)
(***************************************************************************)
\* the number of events ev of destination d in this run
CountEvents(d, ev) ==
    Cardinality({i \in 1..Len(EventsOf(d)) : EventsOf(d)[i].ev = ev})

\* the driver of destination d is inside its try block
Running(d) == driver = d /\ pc \in {"drop_legacy", "drop", "create", "count"}

\* the driver of destination d does not skip
LocalSyncs == ~args.skip_duckdb /\ args.duckdb.some /\ duckdb_file_exists

RemoteSyncs == ~args.skip_motherduck /\ MOTHERDUCK_TOKEN # "" /\ args.motherduck_db # ""

(***************************************************************************)
(* C20.  A sync invocation that gets past its skip checks opens exactly    *)
(* one connection and closes it exactly once before it returns or lets an  *)
(* error out, on every exit path: success, failure of the legacy drop,     *)
(* failure of a drop, create or count of an entry.  No statement is issued *)
(* on the connection after it is closed.                                   *)
(***************************************************************************)
C20_OneConnectionClosedOnce ==
    /\ (LocalCalled /\ LocalSyncs) => CountEvents("duckdb", "connect") = 1
    /\ (RemoteCalled /\ RemoteSyncs) => CountEvents("motherduck", "connect") = 1
    /\ \A d \in Destinations :
           LET ev == EventsOf(d)
           IN  /\ CountEvents(d, "connect") <= 1
               /\ ev # <<>> =>
                      /\ ev[1].ev = "connect"
                      /\ IF Running(d)
                         THEN /\ CountEvents(d, "close") = 0
                              /\ con = "open"
                         ELSE /\ CountEvents(d, "close") = 1
                              /\ ev[Len(ev)].ev = "close"
                              /\ driver = d => con = "closed"
               /\ ev = <<>> => driver # d
    /\ con = "open" => \E d \in Destinations : Running(d)

\* the legacy drop of the local driver failed, and the connection was closed
C20_Witness ==
    /\ pc = "failed"
    /\ driver = "duckdb"
    /\ con = "closed"
    /\ Len(manifest) >= 1
    /\ Len(trace) = 3
    /\ trace[2].stmt = "drop"
    /\ trace[2].table = table_prefix
    /\ ~trace[2].ok
    /\ trace[3].ev = "close"

(***************************************************************************)
(* C21.  The remote driver prints its completion report "MotherDuck load   *)
(* complete." only after the table of every manifest entry has been        *)
(* created and counted; when a statement fails and the driver aborts, the  *)
(* report is not printed.                                                  *)
(* Refuted: the report is printed in the finally block, after con.close(), *)
(* on the failing path as well.                                            *)
(***************************************************************************)
C21_ReportOnlyAfterFullLoad ==
    Printed("MotherDuck load complete.") =>
        LET st == Statements("motherduck")
        IN  /\ pc = "done"
            /\ error = ""
            /\ \A n \in 1..Len(st) : st[n].ok
            /\ \A i \in 1..Len(manifest) :
                   /\ \E n \in 1..Len(st) :
                          st[n].stmt = "create" /\ st[n].table = manifest[i].table_name
                   /\ \E n \in 1..Len(st) :
                          st[n].stmt = "count" /\ st[n].table = manifest[i].table_name
                   /\ manifest[i].table_name \in DOMAIN tables["motherduck"]

====
